---- MODULE Spec2Model ----
(***************************************************************************)
(* Skhron: an in-memory key-value store with per-key TTL, an expiry queue  *)
(* (binary min-heap over container/heap), a cleanup pass and snapshot      *)
(* save/load.  The store operations hold the exclusive lock for their      *)
(* whole body, so each one is a single atomic action here.                 *)
(***************************************************************************)
EXTENDS Integers, Sequences, FiniteSets, TLC

(* ------------------------------ bounds -------------------------------- *)
NumKeys == 3
MaxVal == 1
MaxTTL == 1
MaxTime == 2
\* keys used by the specifications that also save and load snapshots
NumSnapKeys == 2
\* calls of CreateSnapshot in one behaviour
MaxSnapshots == 1
\* calls of CreateSnapshot in one behaviour that follows its file operations
MaxCalls == 3
\* runs of the process in one behaviour of the host and PeriodicCleanup
MaxRuns == 2
\* goroutines calling the store concurrently
NumCallers == 2
\* keys used by the specifications with concurrent goroutines
NumConcKeys == 2
\* HTTP handler goroutines serving requests concurrently
NumHandlers == 2
\* options given to one call of New
MaxOpts == 2

Max(a, b) == IF a > b THEN a ELSE b

Keys == 1..Max(NumKeys, Max(NumSnapKeys, NumConcKeys))
StoreKeys == 1..NumKeys
SnapKeys == 1..NumSnapKeys
ConcKeys == 1..NumConcKeys
Callers == 1..NumCallers
Handlers == 1..NumHandlers
\* values of V; 0 stands for the zero value *new(V)
Values == 0..MaxVal
ZeroValue == 0
TTLs == 0..MaxTTL

NoFile == [none |-> TRUE]

VARIABLES
    Data,       \* s.Data: the map, a function from the present keys to values
    TTLq,       \* s.TTLq: the heap array, a sequence of [Key, Exp]
    now,        \* the clock read by time.Now()
    snapshot,   \* the file at SnapshotDir/SnapshotName.skh, or NoFile
    backups,    \* the files SnapshotDir/SnapshotName_<timestamp>.skh, by timestamp
    tmpFiles,   \* the files TempSnapshotDir/skhron_<timestamp>.json, by timestamp
    nsnap,      \* the number of CreateSnapshot calls so far
    saved,      \* history: the map and the queue that the document at the
                \* canonical path was marshalled from
    lastW,      \* history: per key, the last operation that set or removed
                \* its map entry, the expiry it computed, and how a PutTTL
                \* moved an existing record's expiry
    mu,         \* s.mu: the writer holding it, and the set of readers
    callers,    \* per calling goroutine: the operation it is in and where
    clean,      \* the CleanUp call in progress: position, `now`, `item`
    snap,       \* the CreateSnapshot call in progress: position, `bytes`,
                \* `timestamp`, the file operation that fails, the result
    sched,      \* PeriodicCleanup: its position
    host,       \* the host (main): its position
    ctx,        \* whether the context is cancelled
    sent,       \* history: the number of values sent on done
    events,     \* history: what PeriodicCleanup did since it observed the
                \* cancellation
    seq,        \* history: the map and the queue of the sequential replay
    ret,        \* history: the last call of the store made by the host, with
                \* what it returned
    reqs,       \* per HTTP handler goroutine: the request it serves, its
                \* position in the handler, and the response
    conf        \* the configuration fields of the store (SnapshotDir,
                \* SnapshotName, TempSnapshotDir, the limit of the map), and
                \* (history) the options New was called with

vars == <<Data, TTLq, now, snapshot, backups, tmpFiles, nsnap, saved, lastW,
          mu, callers, clean, snap, sched, host, ctx, sent, events, seq,
          ret, reqs, conf>>

files == <<snapshot, backups, tmpFiles, nsnap, saved>>

\* the goroutines, the lock and their history
procs == <<mu, callers, clean, snap, sched, host, ctx, sent, events, seq>>

\* the calls that return a result (the host's, and the HTTP requests) and
\* the configuration they run under
rets == <<ret, reqs, conf>>

(* --------------------------- expireQueue ------------------------------ *)
\* indices are the Go (0-based) indices; At reads q[i]
At(q, i) == q[i + 1]

Less(q, i, j) == At(q, i).Exp < At(q, j).Exp

Swap(q, i, j) ==
    [x \in 1..Len(q) |->
        IF x = i + 1 THEN q[j + 1] ELSE IF x = j + 1 THEN q[i + 1] ELSE q[x]]

\* expireQueue.Push: append
Push(q, x) == Append(q, x)

\* expireQueue.Pop: remove and return the LAST element
Pop(q) == [item |-> q[Len(q)], q |-> SubSeq(q, 1, Len(q) - 1)]

(* --------------------------- container/heap --------------------------- *)
\* mutant: the pushed or fixed item is never moved up
upNone(q, j) == q

RECURSIVE up(_, _)
up(q, j) ==
    LET i == IF j = 0 THEN 0 ELSE (j - 1) \div 2
    IN  IF i = j \/ ~Less(q, j, i) THEN q ELSE up(Swap(q, i, j), i)

RECURSIVE downFrom(_, _, _)
downFrom(q, i, n) ==
    LET j1 == 2 * i + 1
    IN  IF j1 >= n THEN [q |-> q, i |-> i]
        ELSE LET j2 == j1 + 1
                 j  == IF j2 < n /\ Less(q, j2, j1) THEN j2 ELSE j1
             IN  IF ~Less(q, j, i) THEN [q |-> q, i |-> i]
                 ELSE downFrom(Swap(q, i, j), j, n)

down(q, i0, n) ==
    LET r == downFrom(q, i0, n) IN [q |-> r.q, moved |-> r.i > i0]

\* mutant: the pushed item stays at the end of the array
heapPushNoUp(q, x) == Push(q, x)

heapPush(q, x) == up(Push(q, x), Len(q))

\* mutant: the root is read and stays in the queue
heapPopPeek(q) == [item |-> q[1], q |-> q]

heapPop(q) ==
    LET n == Len(q) - 1
    IN  Pop(down(Swap(q, 0, n), 0, n).q)

RECURSIVE initFrom(_, _, _)
initFrom(q, i, n) == IF i < 0 THEN q ELSE initFrom(down(q, i, n).q, i - 1, n)

heapInit(q) == initFrom(q, (Len(q) \div 2) - 1, Len(q))

\* mutant: the updated record is left where it was
heapFixNone(q, i) == q

heapFix(q, i) ==
    LET d == down(q, i, Len(q))
    IN  IF ~d.moved THEN up(q, i) ELSE d.q

(* ------------------------------ store --------------------------------- *)
\* Exists and Get read the map only
Exists(d, k) == k \in DOMAIN d

\* mutant: Get returns the zero value of an absent key with no error
GetNoError(d, k) ==
    [value |-> IF k \in DOMAIN d THEN d[k] ELSE ZeroValue, err |-> FALSE]

Get(d, k) ==
    IF k \in DOMAIN d THEN [value |-> d[k], err |-> FALSE]
                      ELSE [value |-> ZeroValue, err |-> TRUE]

\* mutant: Set keeps the value of a key that is already in the map
DataSetKeep(d, k, v) ==
    [x \in DOMAIN d \cup {k} |-> IF x \in DOMAIN d THEN d[x] ELSE v]

DataSet(d, k, v) == [x \in DOMAIN d \cup {k} |-> IF x = k THEN v ELSE d[x]]

\* mutant: Delete of an absent key empties the map
DataDeleteAll(d, k) ==
    IF k \in DOMAIN d THEN [x \in DOMAIN d \ {k} |-> d[x]] ELSE << >>

DataDelete(d, k) == [x \in DOMAIN d \ {k} |-> d[x]]

NoWrite == [op |-> "none", exp |-> 0, dir |-> "none"]

\* sync.RWMutex: w names the goroutine holding it for writing ("none",
\* "caller", "clean" or "snap"), r is the set of callers holding it for reading
Unlocked == [w |-> "none", r |-> {}]

\* a goroutine that is in no operation of the store
IdleCaller == [pc |-> "idle", op |-> "none", key |-> 0, value |-> 0, ttl |-> 0,
               index |-> 0 - 1]

NoItem == [Key |-> 0, Exp |-> 0]

\* no CleanUp call in progress; by names who called it
IdleClean == [pc |-> "idle", t |-> 0, item |-> NoItem, by |-> "none"]

NoBytes == [data |-> {}, ttlq |-> << >>]

\* no CreateSnapshot call in progress; failed is the set of file operations
\* of the last call that failed, err its result, img (history) the state of
\* the sequential replay when MarshalJSON got the lock, steps (history) the
\* operations of the call that succeeded so far
IdleSnap == [pc |-> "idle", bytes |-> NoBytes, ts |-> 0, failed |-> {},
             err |-> "none", by |-> "none",
             img |-> [Data |-> << >>, TTLq |-> << >>], steps |-> << >>]

\* a regular expression: a literal, anchored at the beginning (^) or at
\* the end ($) of the text or not
NoMask == [lit |-> << >>, begin |-> FALSE, end |-> FALSE]

\* a []V without regard to its order: how many times it holds each value
NoValues == [v \in Values |-> 0]

\* no call made by the host yet; err is "nil" or names the error returned,
\* value and found are the results of Get and Exists, t is the clock a
\* PutTTL or CleanUp read, was (history) whether the key was in the map when
\* the call was made
\* the call made; mask and values are the argument and the result of
\* GetRegex
NoRet == [op |-> "none", key |-> 0, value |-> 0, found |-> FALSE,
          err |-> "nil", t |-> 0, was |-> FALSE,
          mask |-> NoMask, values |-> NoValues]

\* a handler goroutine that serves no request; body is what the request
\* carries, exists what Exists returned to the handler, status and out the
\* response, present (history) whether the key was in the map when the
\* handler's PutTTL wrote it
IdleReq == [pc |-> "idle", method |-> "none", key |-> 0, value |-> 0,
            ttl |-> 0, body |-> "none", exists |-> FALSE, status |-> 0,
            out |-> 0, present |-> FALSE]

(* ----------------------------- options -------------------------------- *)
\* the limit DefaultOpts sets on the map (deletions before it shrinks)
DefaultMapLimit == 10000

\* a StorageOpt: the field it assigns and its argument (str for the three
\* string fields, num for the limit of the map)
WithSnapshotDir(dir) == [field |-> "SnapshotDir", str |-> dir, num |-> 0]
WithSnapshotName(name) == [field |-> "SnapshotName", str |-> name, num |-> 0]
WithTempSnapshotDir(dir) == [field |-> "TempSnapshotDir", str |-> dir, num |-> 0]
WithMapLimit(limit) == [field |-> "limit", str |-> "", num |-> limit]

\* the options the callers of New pass
Options ==
    {WithSnapshotDir(dir) : dir \in {".", "/data/skhron/backup"}}
        \cup {WithSnapshotName(name) : name \in {"", "custom-snapshot-name"}}
        \cup {WithTempSnapshotDir(dir) : dir \in {".", "/data/skhron/tmp"}}
        \cup {WithMapLimit(limit) : limit \in {0, 100}}

OptLists == UNION {[1..n -> Options] : n \in 0..MaxOpts}

\* the struct literal of New: the zero value of every configuration field,
\* and smap.New(0)
ZeroConf == [SnapshotDir |-> "", SnapshotName |-> "", TempSnapshotDir |-> "",
             limit |-> 0, opts |-> << >>]

DefaultOpts(s) ==
    [s EXCEPT !.SnapshotDir = ".skhron", !.SnapshotName = "snapshot",
              !.TempSnapshotDir = "/tmp/skhron", !.limit = DefaultMapLimit]

\* opt(skhron)
ApplyOpt(s, opt) ==
    IF opt.field = "SnapshotDir" THEN [s EXCEPT !.SnapshotDir = opt.str]
    ELSE IF opt.field = "SnapshotName" THEN [s EXCEPT !.SnapshotName = opt.str]
    ELSE IF opt.field = "TempSnapshotDir" THEN [s EXCEPT !.TempSnapshotDir = opt.str]
    ELSE [s EXCEPT !.limit = opt.num]

\* for _, opt := range opts { opt(skhron) }
RECURSIVE ApplyOpts(_, _)
ApplyOpts(s, opts) ==
    IF opts = << >> THEN s ELSE ApplyOpts(ApplyOpt(s, Head(opts)), Tail(opts))

\* mutant: the defaults are applied after the options
NewConfDefaultsLast(opts) ==
    [DefaultOpts(ApplyOpts(ZeroConf, opts)) EXCEPT !.opts = opts]

\* the configuration New returns
NewConf(opts) ==
    [ApplyOpts(DefaultOpts(ZeroConf), opts) EXCEPT !.opts = opts]

Init ==
    /\ Data = << >>
    /\ TTLq = << >>
    /\ now = 0
    /\ snapshot = NoFile
    /\ backups = << >>
    /\ tmpFiles = << >>
    /\ nsnap = 0
    /\ saved = [Data |-> << >>, TTLq |-> << >>]
    /\ lastW = [k \in Keys |-> NoWrite]
    /\ mu = Unlocked
    /\ callers = [c \in Callers |-> IdleCaller]
    /\ clean = IdleClean
    /\ snap = IdleSnap
    /\ sched = "idle"
    /\ host = "init"
    /\ ctx = FALSE
    /\ sent = 0
    /\ events = << >>
    /\ seq = [Data |-> << >>, TTLq |-> << >>]
    /\ ret = NoRet
    /\ reqs = [h \in Handlers |-> IdleReq]
    /\ conf = NewConf(<< >>)

Put(key, value) ==
    /\ Data' = DataSet(Data, key, value)
    /\ lastW' = [lastW EXCEPT ![key] = [op |-> "Put", exp |-> 0, dir |-> "none"]]
    /\ UNCHANGED <<TTLq, now, files, procs, rets>>

\* the queue part of PutTTL: the scan over the whole queue, then Push or Fix
\* mutant: the scan finds the record and leaves its expiry as it was
QueueScanKeep(q, key, exp) == q

QueueScan(q, key, exp) ==
    [x \in 1..Len(q) |-> IF q[x].Key = key THEN [Key |-> key, Exp |-> exp] ELSE q[x]]

\* mutant: the scan never finds the key
QueueIndexNever(q, key) == 0 - 1

QueueIndex(q, key) ==
    LET m == {i \in 0..(Len(q) - 1) : At(q, i).Key = key}
    IN  IF m = {} THEN 0 - 1 ELSE CHOOSE i \in m : \A j \in m : j <= i

\* mutant: every PutTTL pushes a new record
QueuePutAppend(q, key, exp) == heapPush(q, [Key |-> key, Exp |-> exp])

QueuePut(q, key, exp) ==
    LET index == QueueIndex(q, key)
    IN  IF index = 0 - 1
        THEN heapPush(q, [Key |-> key, Exp |-> exp])
        ELSE heapFix(QueueScan(q, key, exp), index)

\* how a PutTTL moved the expiry of the record it found (history only)
Direction(q, key, exp) ==
    LET index == QueueIndex(q, key)
    IN  IF index = 0 - 1 THEN "new"
        ELSE IF exp < At(q, index).Exp THEN "shorter"
        ELSE IF exp > At(q, index).Exp THEN "longer"
        ELSE "same"

\* what PutTTL does to the store
PutTTLStore(key, value, ttl) ==
    /\ Data' = DataSet(Data, key, value)
    /\ TTLq' = QueuePut(TTLq, key, now + ttl)
    /\ UNCHANGED <<now, files, procs, rets>>

PutTTL(key, value, ttl) ==
    /\ PutTTLStore(key, value, ttl)
    /\ lastW' = [lastW EXCEPT ![key] =
            [op |-> "PutTTL", exp |-> now + ttl, dir |-> "none"]]

\* PutTTL, with the history also recording the direction of the refresh
PutTTLRefresh(key, value, ttl) ==
    /\ PutTTLStore(key, value, ttl)
    /\ lastW' = [lastW EXCEPT ![key] =
            [op |-> "PutTTL", exp |-> now + ttl, dir |-> Direction(TTLq, key, now + ttl)]]

Delete(key) ==
    /\ Data' = DataDelete(Data, key)
    /\ lastW' = [lastW EXCEPT ![key] = [op |-> "Delete", exp |-> 0, dir |-> "none"]]
    /\ UNCHANGED <<TTLq, now, files, procs, rets>>

\* the loop of CleanUp: pop while the popped item is expired, push back the
\* first one that is not; `gone` collects the keys of the popped records
\* mutant: an item counts as expired one tick late
ExpiredLate(item, t) == item.Exp + 1 < t

\* mutant: an item counts as expired at the instant of its expiry
ExpiredAtOnce(item, t) == item.Exp <= t

\* mutant: every item counts as expired
ExpiredAlways(item, t) == TRUE

\* mutant: no record ever counts as expired
ExpiredNever(item, t) == FALSE

Expired(item, t) == item.Exp < t

RECURSIVE CleanLoop(_, _, _, _)
CleanLoop(d, q, t, gone) ==
    IF Len(q) = 0 THEN [d |-> d, q |-> q, gone |-> gone]
    ELSE LET p == heapPop(q)
         IN  IF Expired(p.item, t)
             THEN CleanLoop(DataDelete(d, p.item.Key), p.q, t, gone \cup {p.item.Key})
             ELSE [d |-> d, q |-> heapPush(p.q, p.item), gone |-> gone]

CleanUp ==
    LET r == CleanLoop(Data, TTLq, now, {})
    IN  /\ Data' = r.d
        /\ TTLq' = r.q
        /\ lastW' = [k \in Keys |->
                IF k \in r.gone /\ k \in DOMAIN Data
                THEN [op |-> "CleanUp", exp |-> 0, dir |-> "none"]
                ELSE lastW[k]]
        /\ UNCHANGED <<now, files, procs, rets>>

Tick ==
    /\ now < MaxTime
    /\ now' = now + 1
    /\ UNCHANGED <<Data, TTLq, files, lastW, procs, rets>>

\* the store alone: Put, PutTTL, Delete, CleanUp and the passing of time
NextStore ==
    \/ \E k \in StoreKeys, v \in Values : Put(k, v)
    \/ \E k \in StoreKeys, v \in Values, ttl \in TTLs : PutTTL(k, v, ttl)
    \/ \E k \in StoreKeys : Delete(k)
    \/ CleanUp
    \/ Tick

SpecStore == Init /\ [][NextStore]_vars

\* the same, with the history of each PutTTL's refresh direction
NextRefresh ==
    \/ \E k \in StoreKeys, v \in Values, ttl \in TTLs : PutTTLRefresh(k, v, ttl)
    \/ \E k \in StoreKeys : Delete(k)
    \/ CleanUp
    \/ Tick

SpecRefresh == Init /\ [][NextRefresh]_vars

(* ----------------------------- snapshots ------------------------------ *)
\* the JSON document: "data" an object (a set of key/value members), "ttlq"
\* an array of {key, exp} objects in the order of the heap array
MarshalJSON(d, q) ==
    [data |-> {<<k, d[k]>> : k \in DOMAIN d},
     ttlq |-> [i \in 1..Len(q) |-> <<q[i].Key, q[i].Exp>>]]

\* json.Decoder.Decode into struct{Data map[string]V; TTLq *expireQueue}
Decode(doc) ==
    [Data |-> [k \in {m[1] : m \in doc.data} |->
                  (CHOOSE m \in doc.data : m[1] = k)[2]],
     TTLq |-> [i \in 1..Len(doc.ttlq) |->
                  [Key |-> doc.ttlq[i][1], Exp |-> doc.ttlq[i][2]]]]

\* rs.Data[key]: a Go map read, the zero value for an absent key
\* mutant: the decoded map is never read
MapIndexZero(m, k) == ZeroValue

MapIndex(m, k) == IF k \in DOMAIN m THEN m[k] ELSE ZeroValue

Partial == [partial |-> TRUE]

FilePut(dir, name, content) ==
    [x \in DOMAIN dir \cup {name} |-> IF x = name THEN content ELSE dir[x]]

FileRemove(dir, name) == [x \in DOMAIN dir \ {name} |-> dir[x]]

IOOutcomes ==
    {"ok", "failTmpDir", "failCreate", "failWrite", "failSnapDir",
     "failRenameOld", "failRenameNew"}

\* CreateSnapshot; io names the file operation that fails, if any.  The
\* timestamp in the file names is the clock, with the resolution of a tick.
CreateSnapshot(io) ==
    LET doc == MarshalJSON(Data, TTLq)
        exists == snapshot # NoFile
        renamedOld == exists /\ io # "failRenameOld"
    IN  /\ nsnap < MaxSnapshots
        /\ nsnap' = nsnap + 1
        /\ io = "failRenameOld" => exists
        /\ IF io \in {"failTmpDir", "failCreate"}
           THEN UNCHANGED <<snapshot, backups, tmpFiles, saved>>
           ELSE IF io = "failWrite"
           THEN /\ tmpFiles' = FilePut(tmpFiles, now, Partial)
                /\ UNCHANGED <<snapshot, backups, saved>>
           ELSE IF io = "failSnapDir"
           THEN /\ tmpFiles' = FilePut(tmpFiles, now, doc)
                /\ UNCHANGED <<snapshot, backups, saved>>
           ELSE /\ backups' = IF renamedOld THEN FilePut(backups, now, snapshot)
                                            ELSE backups
                /\ IF io = "failRenameNew"
                   THEN /\ tmpFiles' = FilePut(tmpFiles, now, doc)
                        /\ snapshot' = IF renamedOld THEN NoFile ELSE snapshot
                        /\ UNCHANGED saved
                   ELSE /\ tmpFiles' = FileRemove(tmpFiles, now)
                        /\ snapshot' = doc
                        /\ saved' = [Data |-> Data, TTLq |-> TTLq]
        /\ UNCHANGED <<Data, TTLq, now, lastW, procs, rets>>

\* the loop of LoadSnapshot: expireQueue.Pop (the last element) from the
\* decoded queue, Data.Set, expireQueue.Push (append) into the new queue
RECURSIVE LoadLoop(_, _, _, _)
LoadLoop(rsq, rsdata, d, q) ==
    IF Len(rsq) = 0 THEN [d |-> d, q |-> q]
    ELSE LET p == Pop(rsq)
         IN  LoadLoop(p.q, rsdata,
                      DataSet(d, p.item.Key, MapIndex(rsdata, p.item.Key)),
                      Push(q, p.item))

\* mutant: the old map and queue are not reset before the loop
LoadResultMerge(doc) ==
    LET rs == Decode(doc)
    IN  LoadLoop(rs.TTLq, rs.Data, Data, TTLq)

LoadResult(doc) ==
    LET rs == Decode(doc)
    IN  LoadLoop(rs.TTLq, rs.Data, << >>, heapInit(<< >>))

\* LoadSnapshot; with no file at the canonical path os.Open fails and the
\* store is left as it is
LoadSnapshot ==
    IF snapshot = NoFile
    THEN UNCHANGED vars
    ELSE LET r == LoadResult(snapshot)
         IN  /\ Data' = r.d
             /\ TTLq' = r.q
             /\ lastW' = [k \in Keys |->
                     IF k \in DOMAIN r.d
                     THEN [op |-> "Load", exp |-> 0, dir |-> "none"]
                     ELSE NoWrite]
             /\ UNCHANGED <<now, files, procs, rets>>

\* New: a fresh store (the host restarts); the files stay
New ==
    /\ Data' = << >>
    /\ TTLq' = heapInit(<< >>)
    /\ lastW' = [k \in Keys |-> NoWrite]
    /\ UNCHANGED <<now, files, procs, rets>>

\* the store with snapshots: every operation, on the keys of SnapKeys
Next ==
    \/ \E k \in SnapKeys, v \in Values : Put(k, v)
    \/ \E k \in SnapKeys, v \in Values, ttl \in TTLs : PutTTL(k, v, ttl)
    \/ \E k \in SnapKeys : Delete(k)
    \/ CleanUp
    \/ Tick
    \/ CreateSnapshot("ok")
    \/ LoadSnapshot
    \/ New

Spec == Init /\ [][Next]_vars
(* ------------------------ the lock and the callers -------------------- *)
\* sync.RWMutex.Lock can return when no goroutine holds the lock
\* mutant: Lock returns at once
CanLockAlways(m) == TRUE

CanLock(m) == m.w = "none" /\ m.r = {}

\* sync.RWMutex.RLock can return when no writer holds the lock
CanRLock(m) == m.w = "none"

StoreOps == {"Put", "PutTTL", "Get", "Delete", "Exists"}

\* how each operation takes s.mu: Get calls RLock, the others call Lock
\* mutant: every operation calls RLock
LockModeShared(op) == "shared"

LockMode(op) == IF op = "Get" THEN "shared" ELSE "exclusive"

\* a goroutine calls an operation and gets the lock the operation asks for
Call(c, op, key, value, ttl) ==
    /\ callers[c].pc = "idle"
    /\ IF LockMode(op) = "shared"
       THEN CanRLock(mu) /\ mu' = [mu EXCEPT !.r = @ \cup {c}]
       ELSE CanLock(mu) /\ mu' = [mu EXCEPT !.w = "caller"]
    /\ callers' = [callers EXCEPT ![c] =
            [pc |-> "locked", op |-> op, key |-> key, value |-> value,
             ttl |-> ttl, index |-> 0 - 1]]
    /\ UNCHANGED <<Data, TTLq, now, files, lastW, rets,
                   clean, snap, sched, host, ctx, sent, events, seq>>

\* Put: s.Data.Set
PutSet(c) ==
    LET a == callers[c]
    IN  /\ a.pc = "locked" /\ a.op = "Put"
        /\ Data' = DataSet(Data, a.key, a.value)
        /\ seq' = [seq EXCEPT !.Data = DataSet(seq.Data, a.key, a.value)]
        /\ callers' = [callers EXCEPT ![c].pc = "unlock"]
        /\ UNCHANGED <<TTLq, now, files, lastW, rets,
                       mu, clean, snap, sched, host, ctx, sent, events>>

\* the sequential PutTTL, on the state of the replay
SeqPutTTL(st, key, value, exp) ==
    [Data |-> DataSet(st.Data, key, value), TTLq |-> QueuePut(st.TTLq, key, exp)]

\* PutTTL: s.Data.Set
TTLSet(c) ==
    LET a == callers[c]
    IN  /\ a.pc = "locked" /\ a.op = "PutTTL"
        /\ Data' = DataSet(Data, a.key, a.value)
        /\ callers' = [callers EXCEPT ![c].pc = "scan"]
        /\ UNCHANGED <<TTLq, now, files, lastW, rets,
                       mu, clean, snap, sched, host, ctx, sent, events, seq>>

\* PutTTL: the loop over the queue; it reads the clock for the record it finds
TTLScan(c) ==
    LET a == callers[c]
        index == QueueIndex(TTLq, a.key)
    IN  /\ a.pc = "scan"
        /\ TTLq' = QueueScan(TTLq, a.key, now + a.ttl)
        /\ callers' = [callers EXCEPT ![c].pc = "fix", ![c].index = index]
        /\ seq' = IF index = 0 - 1 THEN seq
                  ELSE SeqPutTTL(seq, a.key, a.value, now + a.ttl)
        /\ UNCHANGED <<Data, now, files, lastW, rets,
                       mu, clean, snap, sched, host, ctx, sent, events>>

\* PutTTL: heap.Push of a new record (reading the clock) or heap.Fix
TTLFix(c) ==
    LET a == callers[c]
    IN  /\ a.pc = "fix"
        /\ IF a.index = 0 - 1
           THEN /\ TTLq' = heapPush(TTLq, [Key |-> a.key, Exp |-> now + a.ttl])
                /\ seq' = SeqPutTTL(seq, a.key, a.value, now + a.ttl)
           ELSE /\ TTLq' = heapFix(TTLq, a.index)
                /\ UNCHANGED seq
        /\ callers' = [callers EXCEPT ![c].pc = "unlock"]
        /\ UNCHANGED <<Data, now, files, lastW, rets,
                       mu, clean, snap, sched, host, ctx, sent, events>>

\* Get: s.Data.Get2; Exists: s.Data.Get2
Read(c) ==
    LET a == callers[c]
    IN  /\ a.pc = "locked" /\ a.op \in {"Get", "Exists"}
        /\ callers' = [callers EXCEPT ![c].pc = "unlock"]
        /\ UNCHANGED <<Data, TTLq, now, files, lastW, rets,
                       mu, clean, snap, sched, host, ctx, sent, events, seq>>

\* Delete: s.Data.Delete
DelSet(c) ==
    LET a == callers[c]
    IN  /\ a.pc = "locked" /\ a.op = "Delete"
        /\ Data' = DataDelete(Data, a.key)
        /\ seq' = [seq EXCEPT !.Data = DataDelete(seq.Data, a.key)]
        /\ callers' = [callers EXCEPT ![c].pc = "unlock"]
        /\ UNCHANGED <<TTLq, now, files, lastW, rets,
                       mu, clean, snap, sched, host, ctx, sent, events>>

\* the deferred s.mu.Unlock or s.mu.RUnlock, and the return
\* mutant: the operation returns without releasing the lock
UnlockNever(c) ==
    /\ callers[c].pc = "unlock"
    /\ callers' = [callers EXCEPT ![c] = IdleCaller]
    /\ UNCHANGED <<Data, TTLq, now, files, lastW, rets,
                   mu, clean, snap, sched, host, ctx, sent, events, seq>>

Unlock(c) ==
    LET a == callers[c]
    IN  /\ a.pc = "unlock"
        /\ mu' = IF LockMode(a.op) = "shared"
                 THEN [mu EXCEPT !.r = @ \ {c}]
                 ELSE [mu EXCEPT !.w = "none"]
        /\ callers' = [callers EXCEPT ![c] = IdleCaller]
        /\ UNCHANGED <<Data, TTLq, now, files, lastW, rets,
                       clean, snap, sched, host, ctx, sent, events, seq>>

\* a goroutine calls one of the operations ops on one of the keys; a caller
\* writes its own number as the value
CallOp(c, ops, keys) ==
    \E op \in ops, k \in keys, ttl \in TTLs :
        /\ op # "PutTTL" => ttl = 0
        /\ Call(c, op, k, IF op \in {"Put", "PutTTL"} THEN c ELSE 0, ttl)

\* one step of a calling goroutine
CallerStep(c, keys) ==
    \/ CallOp(c, StoreOps, keys)
    \/ PutSet(c)
    \/ TTLSet(c)
    \/ TTLScan(c)
    \/ TTLFix(c)
    \/ Read(c)
    \/ DelSet(c)
    \/ Unlock(c)

\* one step of a goroutine that calls PutTTL only
PutTTLStep(c, keys) ==
    \/ CallOp(c, {"PutTTL"}, keys)
    \/ TTLSet(c)
    \/ TTLScan(c)
    \/ TTLFix(c)
    \/ Unlock(c)

\* one step of a goroutine that calls Put only
PutStep(c, keys) ==
    \/ CallOp(c, {"Put"}, keys)
    \/ PutSet(c)
    \/ Unlock(c)

(* --------------------------- CleanUp, by steps ------------------------ *)
\* the sequential CleanUp, on the state of the replay
SeqCleanUp(st, t) ==
    LET r == CleanLoop(st.Data, st.TTLq, t, {})
    IN  [Data |-> r.d, TTLq |-> r.q]

\* a goroutine other than PeriodicCleanup calls CleanUp
CallCleanUp ==
    /\ clean.pc = "idle"
    /\ clean' = [IdleClean EXCEPT !.pc = "lock", !.by = "direct"]
    /\ UNCHANGED <<Data, TTLq, now, files, lastW, rets,
                   mu, callers, snap, sched, host, ctx, sent, events, seq>>

\* s.mu.Lock()
CleanLock ==
    /\ clean.pc = "lock"
    /\ CanLock(mu)
    /\ mu' = [mu EXCEPT !.w = "clean"]
    /\ clean' = [clean EXCEPT !.pc = "now"]
    /\ UNCHANGED <<Data, TTLq, now, files, lastW, rets,
                   callers, snap, sched, host, ctx, sent, events, seq>>

\* now := time.Now()
CleanNow ==
    /\ clean.pc = "now"
    /\ clean' = [clean EXCEPT !.pc = "loop", !.t = now]
    /\ seq' = SeqCleanUp(seq, now)
    /\ UNCHANGED <<Data, TTLq, now, files, lastW, rets,
                   mu, callers, snap, sched, host, ctx, sent, events>>

\* the loop condition and heap.Pop
CleanPop ==
    /\ clean.pc = "loop"
    /\ IF Len(TTLq) = 0
       THEN /\ clean' = [clean EXCEPT !.pc = "unlock"]
            /\ UNCHANGED TTLq
       ELSE LET p == heapPop(TTLq)
            IN  /\ clean' = [clean EXCEPT !.pc = "item", !.item = p.item]
                /\ TTLq' = p.q
    /\ UNCHANGED <<Data, now, files, lastW, rets,
                   mu, callers, snap, sched, host, ctx, sent, events, seq>>

\* the loop body: Data.Delete of an expired item, or heap.Push and break
CleanItem ==
    /\ clean.pc = "item"
    /\ IF Expired(clean.item, clean.t)
       THEN /\ Data' = DataDelete(Data, clean.item.Key)
            /\ clean' = [clean EXCEPT !.pc = "loop", !.item = NoItem]
            /\ UNCHANGED TTLq
       ELSE /\ TTLq' = heapPush(TTLq, clean.item)
            /\ clean' = [clean EXCEPT !.pc = "unlock", !.item = NoItem]
            /\ UNCHANGED Data
    /\ UNCHANGED <<now, files, lastW, rets,
                   mu, callers, snap, sched, host, ctx, sent, events, seq>>

\* the deferred s.mu.Unlock(), and the return; a call of PeriodicCleanup's
\* stays "returned" until PeriodicCleanup goes on
CleanUnlock ==
    /\ clean.pc = "unlock"
    /\ mu' = [mu EXCEPT !.w = "none"]
    /\ clean' = IF clean.by = "direct" THEN IdleClean
                ELSE [clean EXCEPT !.pc = "returned", !.t = 0]
    /\ UNCHANGED <<Data, TTLq, now, files, lastW, rets,
                   callers, snap, sched, host, ctx, sent, events, seq>>

CleanStep == CleanLock \/ CleanNow \/ CleanPop \/ CleanItem \/ CleanUnlock

(* ------------------------ CreateSnapshot, by steps -------------------- *)
\* whether CreateSnapshot returns the error of a failed operation; the
\* failure of os.Stat only skips the rename of the old snapshot, the failure
\* of that rename is logged
\* mutant: the failed rename of the old snapshot is returned as well
ReturnsErrStrict(fop) == fop \notin {"stat"}

\* mutant: only the failure of the final rename is returned
ReturnsErrLast(fop) == fop = "renameNew"

\* mutant: the error of f.Write is not looked at
ReturnsErrNoWrite(fop) == fop \notin {"stat", "renameOld", "write"}

ReturnsErr(fop) == fop \notin {"stat", "renameOld"}

\* the call after the file operation fop, by its outcome: a failure is
\* remembered; the call returns the error, or goes on (after a failed
\* os.Stat with the final rename), and returns nil after the last step; its
\* locals are gone when it has returned
SnapAfter(fop, ok, next) ==
    LET returns == ~ok /\ ReturnsErr(fop)
        pc2 == IF returns THEN "returned"
               ELSE IF ~ok /\ fop = "stat" THEN "renameNew"
               ELSE next
    IN  [snap EXCEPT !.pc = pc2,
                     !.failed = IF ok THEN @ ELSE @ \cup {fop},
                     !.err = IF returns THEN "err"
                             ELSE IF pc2 = "returned" THEN "nil" ELSE @,
                     !.bytes = IF pc2 = "returned" THEN NoBytes ELSE @,
                     !.img = IF pc2 = "returned" THEN IdleSnap.img ELSE @,
                     !.steps = IF pc2 = "returned" THEN << >>
                               ELSE IF ok THEN Append(@, fop) ELSE @]

\* a goroutine other than PeriodicCleanup calls CreateSnapshot
CallCreateSnapshot(calls) ==
    /\ snap.pc \in {"idle", "returned"}
    /\ snap.by # "sched"
    /\ nsnap < calls
    /\ nsnap' = nsnap + 1
    /\ snap' = [IdleSnap EXCEPT !.pc = "lock", !.by = "direct"]
    /\ UNCHANGED <<Data, TTLq, now, snapshot, backups, tmpFiles, saved, lastW, rets,
                   mu, callers, clean, sched, host, ctx, sent, events, seq>>

\* MarshalJSON: s.mu.Lock()
SnapLock ==
    /\ snap.pc = "lock"
    /\ CanLock(mu)
    /\ mu' = [mu EXCEPT !.w = "snap"]
    /\ snap' = [snap EXCEPT !.pc = "data", !.img = seq]
    /\ UNCHANGED <<Data, TTLq, now, files, lastW, rets,
                   callers, clean, sched, host, ctx, sent, events, seq>>

\* MarshalJSON: the "data" member, from s.Data.Values()
SnapData ==
    /\ snap.pc = "data"
    /\ snap' = [snap EXCEPT !.pc = "ttlq",
                            !.bytes.data = MarshalJSON(Data, TTLq).data]
    /\ UNCHANGED <<Data, TTLq, now, files, lastW, rets,
                   mu, callers, clean, sched, host, ctx, sent, events, seq>>

\* MarshalJSON: the "ttlq" member, from s.TTLq
SnapTTLq ==
    /\ snap.pc = "ttlq"
    /\ snap' = [snap EXCEPT !.pc = "unlock",
                            !.bytes.ttlq = MarshalJSON(Data, TTLq).ttlq]
    /\ UNCHANGED <<Data, TTLq, now, files, lastW, rets,
                   mu, callers, clean, sched, host, ctx, sent, events, seq>>

\* MarshalJSON: the deferred s.mu.Unlock() and the return of the bytes or of
\* json.Marshal's error
SnapUnlock(ok) ==
    /\ snap.pc = "unlock"
    /\ mu' = [mu EXCEPT !.w = "none"]
    /\ snap' = SnapAfter("marshal", ok, "mkTmp")
    /\ UNCHANGED <<Data, TTLq, now, files, lastW, rets,
                   callers, clean, sched, host, ctx, sent, events, seq>>

\* os.MkdirAll(s.TempSnapshotDir), then the timestamp
SnapMkTmp(ok) ==
    /\ snap.pc = "mkTmp"
    /\ snap' = [SnapAfter("mkTmp", ok, "create") EXCEPT !.ts = IF ok THEN now ELSE @]
    /\ UNCHANGED <<Data, TTLq, now, files, lastW, rets,
                   mu, callers, clean, sched, host, ctx, sent, events, seq>>

\* os.Create(tmpFilepath): a new, or truncated, empty file
SnapCreate(ok) ==
    /\ snap.pc = "create"
    /\ snap' = SnapAfter("create", ok, "write")
    /\ tmpFiles' = IF ok THEN FilePut(tmpFiles, snap.ts, Partial) ELSE tmpFiles
    /\ UNCHANGED <<Data, TTLq, now, snapshot, backups, nsnap, saved, lastW, rets,
                   mu, callers, clean, sched, host, ctx, sent, events, seq>>

\* f.Write(bytes): the whole document, or an error with part of it written
SnapWrite(ok) ==
    /\ snap.pc = "write"
    /\ snap' = SnapAfter("write", ok, "mkDir")
    /\ tmpFiles' = IF ok THEN FilePut(tmpFiles, snap.ts, snap.bytes) ELSE tmpFiles
    /\ UNCHANGED <<Data, TTLq, now, snapshot, backups, nsnap, saved, lastW, rets,
                   mu, callers, clean, sched, host, ctx, sent, events, seq>>

\* os.MkdirAll(s.SnapshotDir)
SnapMkDir(ok) ==
    /\ snap.pc = "mkDir"
    /\ snap' = SnapAfter("mkDir", ok, "stat")
    /\ UNCHANGED <<Data, TTLq, now, files, lastW, rets,
                   mu, callers, clean, sched, host, ctx, sent, events, seq>>

\* os.Stat(filepath): nil when the file is there and can be examined
SnapStat(ok) ==
    /\ snap.pc = "stat"
    /\ ~ok => snapshot # NoFile
    /\ snap' = IF snapshot = NoFile THEN [snap EXCEPT !.pc = "renameNew"]
               ELSE SnapAfter("stat", ok, "renameOld")
    /\ UNCHANGED <<Data, TTLq, now, files, lastW, rets,
                   mu, callers, clean, sched, host, ctx, sent, events, seq>>

\* os.Rename(filepath, newPath): the old snapshot gets its backup name
SnapRenameOld(ok) ==
    /\ snap.pc = "renameOld"
    /\ snap' = SnapAfter("renameOld", ok, "renameNew")
    /\ IF ok
       THEN /\ backups' = FilePut(backups, snap.ts, snapshot)
            /\ snapshot' = NoFile
       ELSE UNCHANGED <<backups, snapshot>>
    /\ UNCHANGED <<Data, TTLq, now, tmpFiles, nsnap, saved, lastW, rets,
                   mu, callers, clean, sched, host, ctx, sent, events, seq>>

\* os.Rename(tmpFilepath, filepath), and the return; it fails when there
\* is no temp file
SnapRenameNew(ok) ==
    /\ snap.pc = "renameNew"
    /\ ok => snap.ts \in DOMAIN tmpFiles
    /\ snap' = SnapAfter("renameNew", ok, "returned")
    /\ IF ok
       THEN /\ snapshot' = tmpFiles[snap.ts]
            /\ tmpFiles' = FileRemove(tmpFiles, snap.ts)
            /\ saved' = snap.img
       ELSE UNCHANGED <<snapshot, tmpFiles, saved>>
    /\ UNCHANGED <<Data, TTLq, now, backups, nsnap, lastW, rets,
                   mu, callers, clean, sched, host, ctx, sent, events, seq>>

\* the steps of MarshalJSON
MarshalStep ==
    \/ SnapLock
    \/ SnapData
    \/ SnapTTLq
    \/ \E ok \in BOOLEAN : SnapUnlock(ok)

\* the steps of CreateSnapshot on the files
FileStep ==
    \/ \E ok \in BOOLEAN : SnapMkTmp(ok)
    \/ \E ok \in BOOLEAN : SnapCreate(ok)
    \/ \E ok \in BOOLEAN : SnapWrite(ok)
    \/ \E ok \in BOOLEAN : SnapMkDir(ok)
    \/ \E ok \in BOOLEAN : SnapStat(ok)
    \/ \E ok \in BOOLEAN : SnapRenameOld(ok)
    \/ \E ok \in BOOLEAN : SnapRenameNew(ok)

(* ------------------------ PeriodicCleanup and the host ---------------- *)
\* main: New, then LoadSnapshot, which holds the lock from its first
\* statement to its return; its error (os.Open finds no file, Decode finds
\* no complete document) is ignored and leaves the store as it is
HostLoad ==
    /\ host = "init"
    /\ CanLock(mu)
    /\ host' = "loaded"
    /\ IF snapshot = NoFile \/ snapshot = Partial
       THEN UNCHANGED <<Data, TTLq, seq>>
       ELSE LET r == LoadResult(snapshot)
            IN  /\ Data' = r.d
                /\ TTLq' = r.q
                /\ seq' = [Data |-> r.d, TTLq |-> r.q]
    /\ UNCHANGED <<now, files, lastW, rets,
                   mu, callers, clean, snap, sched, ctx, sent, events>>

\* main: go PeriodicCleanup
HostGo ==
    /\ host = "loaded"
    /\ host' = "running"
    /\ sched' = "select"
    /\ UNCHANGED <<Data, TTLq, now, files, lastW, rets,
                   mu, callers, clean, snap, ctx, sent, events, seq>>

\* main: cancel(), then the receive from the done channel
HostCancel ==
    /\ host = "running"
    /\ ctx' = TRUE
    /\ host' = "waiting"
    /\ UNCHANGED <<Data, TTLq, now, files, lastW, rets,
                   mu, callers, clean, snap, sched, sent, events, seq>>

\* select: case <-time.After(period), and the call of CleanUp
SchedTimer ==
    /\ sched = "select"
    /\ sched' = "tick"
    /\ clean' = [IdleClean EXCEPT !.pc = "lock", !.by = "sched"]
    /\ UNCHANGED <<Data, TTLq, now, files, lastW, rets,
                   mu, callers, snap, host, ctx, sent, events, seq>>

\* CleanUp returned: back to the select
SchedTickDone ==
    /\ sched = "tick"
    /\ clean.pc = "returned"
    /\ sched' = "select"
    /\ clean' = IdleClean
    /\ UNCHANGED <<Data, TTLq, now, files, lastW, rets,
                   mu, callers, snap, host, ctx, sent, events, seq>>

\* select: case <-ctx.Done(), and the call of CleanUp
SchedCancelled ==
    /\ sched = "select"
    /\ ctx
    /\ sched' = "final"
    /\ clean' = [IdleClean EXCEPT !.pc = "lock", !.by = "sched"]
    /\ UNCHANGED <<Data, TTLq, now, files, lastW, rets,
                   mu, callers, snap, host, ctx, sent, events, seq>>

\* what PeriodicCleanup does after the CleanUp of the ctx.Done() case
\* mutant: it breaks out of the loop at once
AfterFinalCleanUpBreak == "send"

AfterFinalCleanUp == "snapshot"

\* CleanUp returned: the call of CreateSnapshot
SchedFinalDone ==
    /\ sched = "final"
    /\ clean.pc = "returned"
    /\ sched' = AfterFinalCleanUp
    /\ clean' = IdleClean
    /\ events' = Append(events, "CleanUp")
    /\ IF AfterFinalCleanUp = "snapshot"
       THEN /\ snap' = [IdleSnap EXCEPT !.pc = "lock", !.by = "sched"]
            /\ nsnap' = nsnap + 1
       ELSE UNCHANGED <<snap, nsnap>>
    /\ UNCHANGED <<Data, TTLq, now, snapshot, backups, tmpFiles, saved, lastW, rets,
                   mu, callers, host, ctx, sent, seq>>

\* what PeriodicCleanup does with the result of CreateSnapshot: an error is
\* logged, and the loop is left either way
\* mutant: an error ends PeriodicCleanup
AfterSnapshotReturn(err) == IF err = "err" THEN "terminated" ELSE "send"

AfterSnapshot(err) == "send"

\* CreateSnapshot returned
SchedSnapDone ==
    /\ sched = "snapshot"
    /\ snap.pc = "returned"
    /\ sched' = AfterSnapshot(snap.err)
    /\ snap' = [snap EXCEPT !.pc = "idle", !.failed = {}]
    /\ events' = Append(events, "CreateSnapshot")
    /\ UNCHANGED <<Data, TTLq, now, files, lastW, rets,
                   mu, callers, clean, host, ctx, sent, seq>>

\* done <- struct{}{}: the channel has no buffer, so the send happens
\* together with the host's receive
SchedSend ==
    /\ sched = "send"
    /\ host = "waiting"
    /\ sched' = "terminated"
    /\ host' = "exited"
    /\ sent' = sent + 1
    /\ events' = Append(events, "done")
    /\ UNCHANGED <<Data, TTLq, now, files, lastW, rets,
                   mu, callers, clean, snap, ctx, seq>>

SchedStep ==
    \/ SchedTimer
    \/ SchedTickDone
    \/ SchedCancelled
    \/ SchedFinalDone
    \/ SchedSnapDone
    \/ SchedSend

\* the process dies and is started again: the goroutines, the lock and the
\* store are gone, New builds an empty store and main makes a new done
\* channel, the files stay as they are
Crash ==
    /\ Data' = << >>
    /\ TTLq' = heapInit(<< >>)
    /\ seq' = [Data |-> << >>, TTLq |-> << >>]
    /\ mu' = Unlocked
    /\ callers' = [c \in Callers |-> IdleCaller]
    /\ clean' = IdleClean
    /\ snap' = IdleSnap
    /\ sched' = "idle"
    /\ host' = "init"
    /\ ctx' = FALSE
    /\ sent' = 0
    /\ events' = << >>
    /\ UNCHANGED <<now, files, lastW, rets>>

\* the host has received from done and exits, and the process is started
\* again
Restart ==
    /\ host = "exited"
    /\ nsnap < MaxRuns
    /\ Crash

(* --------------------------- specifications --------------------------- *)
\* the one goroutine that calls the store next to a snapshot
SchedCallers == {1}

\* concurrent callers and a CleanUp, step by step
NextConc ==
    \/ \E c \in Callers : CallerStep(c, ConcKeys)
    \/ CallCleanUp
    \/ CleanStep
    \/ Tick

SpecConc == Init /\ [][NextConc]_vars

\* one caller on one key, a CleanUp and two CreateSnapshot calls, step by step
NextMarshal ==
    \/ \E c \in SchedCallers : CallerStep(c, {1})
    \/ CallCleanUp
    \/ CleanStep
    \/ CallCreateSnapshot(MaxRuns)
    \/ MarshalStep
    \/ FileStep
    \/ Tick

SpecMarshal == Init /\ [][NextMarshal]_vars

\* the host, PeriodicCleanup and a caller of PutTTL on one key
NextSched ==
    \/ HostLoad
    \/ HostGo
    \/ HostCancel
    \/ SchedStep
    \/ CleanStep
    \/ MarshalStep
    \/ FileStep
    \/ \E c \in SchedCallers : PutTTLStep(c, {1})
    \/ Restart
    \/ Tick

\* the goroutines are scheduled fairly; a goroutine waiting in Lock gets the
\* lock once the holders have released it (no writer is starved), and the
\* select takes the ready ctx.Done() case sooner or later
SpecSched ==
    /\ Init
    /\ [][NextSched]_vars
    /\ WF_vars(SchedTickDone \/ SchedFinalDone \/ SchedSnapDone \/ SchedSend)
    /\ SF_vars(SchedCancelled)
    /\ SF_vars(CleanLock)
    /\ SF_vars(SnapLock)
    /\ WF_vars(CleanNow \/ CleanPop \/ CleanItem \/ CleanUnlock)
    /\ WF_vars(SnapData \/ SnapTTLq \/ (\E ok \in BOOLEAN : SnapUnlock(ok)))
    /\ WF_vars(FileStep)
    /\ \A c \in SchedCallers :
        WF_vars(TTLSet(c) \/ TTLScan(c) \/ TTLFix(c) \/ Unlock(c))

\* the host starts PeriodicCleanup and never cancels; a caller of PutTTL on
\* two keys
NextSweep ==
    \/ HostLoad
    \/ HostGo
    \/ SchedTimer
    \/ SchedTickDone
    \/ CleanStep
    \/ \E c \in SchedCallers : PutTTLStep(c, ConcKeys)
    \/ Tick

\* the timer of time.After(period) fires; the goroutines are scheduled
\* fairly, and a goroutine waiting in Lock gets the lock once the holder has
\* released it
SpecSweep ==
    /\ Init
    /\ [][NextSweep]_vars
    /\ WF_vars(SchedTimer)
    /\ WF_vars(SchedTickDone)
    /\ SF_vars(CleanLock)
    /\ WF_vars(CleanNow \/ CleanPop \/ CleanItem \/ CleanUnlock)
    /\ \A c \in SchedCallers :
        WF_vars(TTLSet(c) \/ TTLScan(c) \/ TTLFix(c) \/ Unlock(c))

\* CreateSnapshot on the files step by step, with failing file operations
\* and crashes, next to callers of Put on one key
NextFiles ==
    \/ \E c \in Callers : PutStep(c, {1})
    \/ CallCreateSnapshot(MaxCalls)
    \/ MarshalStep
    \/ FileStep
    \/ Crash
    \/ HostLoad
    \/ Tick

SpecFiles == Init /\ [][NextFiles]_vars

(* ------------------- LoadSnapshot and what it returns ----------------- *)
\* whether json.Decoder.Decode accepts the document: a file that stops half
\* way is not a JSON value
Decodable(doc) == doc # Partial

\* LoadSnapshot in the order of its code: os.Open, Decode, and only then the
\* reset of the map and the queue and the loop
\* mutant: the map and the queue are reset before the file is opened
LoadOutcomeResetFirst(file, d, q) ==
    IF file = NoFile THEN [d |-> << >>, q |-> << >>, err |-> "open"]
    ELSE IF ~Decodable(file) THEN [d |-> << >>, q |-> << >>, err |-> "decode"]
    ELSE LET r == LoadResult(file) IN [d |-> r.d, q |-> r.q, err |-> "nil"]

LoadOutcome(file, d, q) ==
    IF file = NoFile THEN [d |-> d, q |-> q, err |-> "open"]
    ELSE IF ~Decodable(file) THEN [d |-> d, q |-> q, err |-> "decode"]
    ELSE LET r == LoadResult(file) IN [d |-> r.d, q |-> r.q, err |-> "nil"]

\* the host calls LoadSnapshot and looks at the error
LoadOp ==
    LET r == LoadOutcome(snapshot, Data, TTLq)
    IN  /\ Data' = r.d
        /\ TTLq' = r.q
        /\ lastW' = IF r.err # "nil" THEN lastW
                    ELSE [k \in Keys |->
                            IF k \in DOMAIN r.d
                            THEN [op |-> "Load", exp |-> 0, dir |-> "none"]
                            ELSE NoWrite]
        /\ ret' = [NoRet EXCEPT !.op = "LoadSnapshot", !.err = r.err]
        /\ UNCHANGED <<now, files, procs, reqs, conf>>

\* the file at the canonical path is cut short by something other than the
\* store (LoadSnapshot reads whatever is there)
Damage ==
    /\ snapshot # NoFile /\ snapshot # Partial
    /\ snapshot' = Partial
    /\ UNCHANGED <<Data, TTLq, now, backups, tmpFiles, nsnap, saved, lastW,
                   procs, rets>>

\* the store with a snapshot that is saved, damaged and loaded
NextLoad ==
    \/ \E k \in SnapKeys, v \in Values, ttl \in TTLs : PutTTL(k, v, ttl)
    \/ CleanUp
    \/ Tick
    \/ CreateSnapshot("ok")
    \/ Damage
    \/ LoadOp

SpecLoad == Init /\ [][NextLoad]_vars

(* ------------------ the store's calls and what they return ------------ *)
\* time.Duration is signed: a ttl may be negative
SignedTTLs == (0 - 1)..MaxTTL

\* the history of a write, with the value and the ttl it was called with
Wrote(op, value, ttl, exp) ==
    [op |-> op, exp |-> exp, dir |-> "none", value |-> value, ttl |-> ttl]

\* Put(key, value) returns nil
PutOp(key, value) ==
    /\ Data' = DataSet(Data, key, value)
    /\ lastW' = [lastW EXCEPT ![key] = Wrote("Put", value, 0, 0)]
    /\ ret' = [NoRet EXCEPT !.op = "Put", !.key = key, !.value = value,
                            !.was = key \in DOMAIN Data]
    /\ UNCHANGED <<TTLq, now, files, procs, reqs, conf>>

\* PutTTL(key, value, ttl) returns nil
PutTTLOp(key, value, ttl) ==
    /\ Data' = DataSet(Data, key, value)
    /\ TTLq' = QueuePut(TTLq, key, now + ttl)
    /\ lastW' = [lastW EXCEPT ![key] = Wrote("PutTTL", value, ttl, now + ttl)]
    /\ ret' = [NoRet EXCEPT !.op = "PutTTL", !.key = key, !.value = value,
                            !.t = now, !.was = key \in DOMAIN Data]
    /\ UNCHANGED <<now, files, procs, reqs, conf>>

\* Get(key) returns the value and nil, or the zero value and an error
\* mutant: Get removes an entry whose record has expired and reports it absent
GetOpLazy(key) ==
    LET old == \E i \in 1..Len(TTLq) : TTLq[i].Key = key /\ TTLq[i].Exp < now
        d == IF old THEN DataDelete(Data, key) ELSE Data
        r == Get(d, key)
    IN  /\ Data' = d
        /\ ret' = [NoRet EXCEPT !.op = "Get", !.key = key, !.value = r.value,
                                !.err = IF r.err THEN "no such key" ELSE "nil",
                                !.was = key \in DOMAIN Data]
        /\ UNCHANGED <<TTLq, now, files, lastW, procs, reqs, conf>>

GetOp(key) ==
    LET r == Get(Data, key)
    IN  /\ ret' = [NoRet EXCEPT !.op = "Get", !.key = key, !.value = r.value,
                                !.err = IF r.err THEN "no such key" ELSE "nil",
                                !.was = key \in DOMAIN Data]
        /\ UNCHANGED <<Data, TTLq, now, files, lastW, procs, reqs, conf>>

\* Exists(key) returns whether the map has the key
ExistsOp(key) ==
    /\ ret' = [NoRet EXCEPT !.op = "Exists", !.key = key,
                            !.found = Exists(Data, key),
                            !.was = key \in DOMAIN Data]
    /\ UNCHANGED <<Data, TTLq, now, files, lastW, procs, reqs, conf>>

\* Delete(key) returns nil
DeleteOp(key) ==
    /\ Data' = DataDelete(Data, key)
    /\ lastW' = [lastW EXCEPT ![key] = Wrote("Delete", 0, 0, 0)]
    /\ ret' = [NoRet EXCEPT !.op = "Delete", !.key = key,
                            !.was = key \in DOMAIN Data]
    /\ UNCHANGED <<TTLq, now, files, procs, reqs, conf>>

\* CleanUp() returns nothing
CleanUpOp ==
    LET r == CleanLoop(Data, TTLq, now, {})
    IN  /\ Data' = r.d
        /\ TTLq' = r.q
        /\ lastW' = [k \in Keys |->
                IF k \in r.gone /\ k \in DOMAIN Data
                THEN Wrote("CleanUp", 0, 0, 0)
                ELSE lastW[k]]
        /\ ret' = [NoRet EXCEPT !.op = "CleanUp", !.t = now]
        /\ UNCHANGED <<now, files, procs, reqs, conf>>

\* every operation of the store, called one after the other
NextOps ==
    \/ \E k \in SnapKeys, v \in Values : PutOp(k, v)
    \/ \E k \in SnapKeys, v \in Values, ttl \in SignedTTLs : PutTTLOp(k, v, ttl)
    \/ \E k \in SnapKeys : GetOp(k)
    \/ \E k \in SnapKeys : ExistsOp(k)
    \/ \E k \in SnapKeys : DeleteOp(k)
    \/ CleanUpOp
    \/ Tick

SpecOps == Init /\ [][NextOps]_vars

\* the operations that write and the ones that only read, with the history
\* of each PutTTL's refresh direction
NextFrame ==
    \/ \E k \in SnapKeys, v \in Values : Put(k, v)
    \/ \E k \in SnapKeys, v \in Values, ttl \in TTLs : PutTTLRefresh(k, v, ttl)
    \/ \E k \in SnapKeys : Delete(k)
    \/ \E k \in SnapKeys : GetOp(k)
    \/ \E k \in SnapKeys : ExistsOp(k)
    \/ CleanUp
    \/ Tick

SpecFrame == Init /\ [][NextFrame]_vars

(* --------------------------- the HTTP server -------------------------- *)
\* request methods; HEAD stands for every method Serve has no case for
Methods == {"GET", "POST", "PUT", "DELETE", "HEAD"}

\* what a POST or PUT request carries: a JSON body that decodes, no body,
\* or a body that does not decode
Bodies == {"ok", "nil", "bad"}

\* Serve's switch on request.Method: where the handler goes next ("done":
\* the default case, the response is 405)
\* mutant: a method with no case is served as a GET
RouteDefaultGet(method) ==
    IF method \in {"POST", "PUT"} THEN "exists"
    ELSE IF method = "DELETE" THEN "delete"
    ELSE "get"

Route(method) ==
    IF method = "GET" THEN "get"
    ELSE IF method \in {"POST", "PUT"} THEN "exists"
    ELSE IF method = "DELETE" THEN "delete"
    ELSE "done"

\* a request arrives: net/http runs Serve in a goroutine of its own
Receive(h, method, key, value, ttl, body) ==
    /\ reqs[h].pc \in {"idle", "done"}
    /\ reqs' = [reqs EXCEPT ![h] =
            [IdleReq EXCEPT !.pc = Route(method), !.method = method,
                            !.key = key, !.value = value, !.ttl = ttl,
                            !.body = body,
                            !.status = IF Route(method) = "done" THEN 405 ELSE 0]]
    /\ UNCHANGED <<Data, TTLq, now, files, lastW, procs, ret, conf>>

\* serveGet: Get, then 404 or 200 with the value
ServeGet(h) ==
    LET q == reqs[h]
        r == Get(Data, q.key)
    IN  /\ q.pc = "get"
        /\ reqs' = [reqs EXCEPT ![h].pc = "done",
                                ![h].status = IF r.err THEN 404 ELSE 200,
                                ![h].out = r.value]
        /\ UNCHANGED <<Data, TTLq, now, files, lastW, procs, ret, conf>>

\* servePost and servePut up to the call of PutTTL: Exists, then 409 (POST)
\* or 404 (PUT), then the body, then 422
ServeExists(h) ==
    LET q == reqs[h]
        exists == Exists(Data, q.key)
        status == IF q.method = "POST" /\ exists THEN 409
                  ELSE IF q.method = "PUT" /\ ~exists THEN 404
                  ELSE IF q.body # "ok" THEN 422
                  ELSE 0
    IN  /\ q.pc = "exists"
        /\ reqs' = [reqs EXCEPT ![h].pc = IF status = 0 THEN "store" ELSE "done",
                                ![h].exists = exists,
                                ![h].status = status]
        /\ UNCHANGED <<Data, TTLq, now, files, lastW, procs, ret, conf>>

\* servePost and servePut: PutTTL, then 201 (POST) or 204 (PUT)
ServeStore(h) ==
    LET q == reqs[h]
    IN  /\ q.pc = "store"
        /\ Data' = DataSet(Data, q.key, q.value)
        /\ TTLq' = QueuePut(TTLq, q.key, now + q.ttl)
        /\ reqs' = [reqs EXCEPT ![h].pc = "done",
                                ![h].status = IF q.method = "POST" THEN 201 ELSE 204,
                                ![h].present = q.key \in DOMAIN Data]
        /\ UNCHANGED <<now, files, lastW, procs, ret, conf>>

\* serveDelete: Delete, then 204
ServeDelete(h) ==
    LET q == reqs[h]
    IN  /\ q.pc = "delete"
        /\ Data' = DataDelete(Data, q.key)
        /\ reqs' = [reqs EXCEPT ![h].pc = "done", ![h].status = 204]
        /\ UNCHANGED <<TTLq, now, files, lastW, procs, ret, conf>>

\* the requests a client sends: only POST and PUT carry a body, and only a
\* body that decodes carries a value and a ttl
Request(h, keys) ==
    \E method \in Methods, k \in keys, v \in Values, ttl \in TTLs, body \in Bodies :
        /\ method \notin {"POST", "PUT"} => body = "nil"
        /\ body # "ok" => v = 0 /\ ttl = 0
        /\ Receive(h, method, k, v, ttl, body)

\* the handlers, each call of the store in one step, and a CleanUp pass
NextHTTP ==
    \/ \E h \in Handlers : Request(h, {1})
    \/ \E h \in Handlers : ServeGet(h)
    \/ \E h \in Handlers : ServeExists(h)
    \/ \E h \in Handlers : ServeStore(h)
    \/ \E h \in Handlers : ServeDelete(h)
    \/ CleanUp
    \/ Tick

SpecHTTP == Init /\ [][NextHTTP]_vars

(* ----------------------------- GetRegex ------------------------------- *)
\* the names of the keys, as the bytes mask.Match reads
KeyName(k) == IF k = 1 THEN <<"a">> ELSE IF k = 2 THEN <<"a", "b">> ELSE <<"b">>

\* the masks the callers pass
Masks == [lit : {<< >>, <<"a">>, <<"b">>}, begin : BOOLEAN, end : BOOLEAN]

\* the search for the literal from position i of the text on
RECURSIVE MatchFrom(_, _, _)
MatchFrom(mask, name, i) ==
    LET j == i + Len(mask.lit) - 1
    IN  IF j > Len(name) THEN FALSE
        ELSE IF SubSeq(name, i, j) = mask.lit /\ (mask.end => j = Len(name))
        THEN TRUE
        ELSE IF mask.begin THEN FALSE
        ELSE MatchFrom(mask, name, i + 1)

\* mutant: the mask has to match the whole name
MatchWhole(mask, name) == name = mask.lit

\* regexp.Match: whether the text has a match of the mask anywhere
Match(mask, name) == MatchFrom(mask, name, 1)

\* the loop of GetRegex over the map, in the order the map yields its keys
RECURSIVE GetRegexLoop(_, _, _, _)
GetRegexLoop(d, keys, mask, values) ==
    IF keys = {} THEN values
    ELSE LET key == CHOOSE k \in keys : TRUE
         IN  GetRegexLoop(d, keys \ {key}, mask,
                 IF Match(mask, KeyName(key))
                 THEN [values EXCEPT ![d[key]] = @ + 1]
                 ELSE values)

GetRegex(d, mask) == GetRegexLoop(d, DOMAIN d, mask, NoValues)

\* GetRegex(mask) returns the values
GetRegexOp(mask) ==
    /\ ret' = [NoRet EXCEPT !.op = "GetRegex", !.mask = mask,
                            !.values = GetRegex(Data, mask)]
    /\ UNCHANGED <<Data, TTLq, now, files, lastW, procs, reqs, conf>>

\* a host that writes, deletes, sweeps and asks for the values by mask
NextRegex ==
    \/ \E k \in SnapKeys, v \in Values, ttl \in TTLs : PutTTLOp(k, v, ttl)
    \/ \E k \in SnapKeys : DeleteOp(k)
    \/ CleanUpOp
    \/ \E mask \in Masks : GetRegexOp(mask)
    \/ Tick

SpecRegex == Init /\ [][NextRegex]_vars

(* ------------------------------- New ---------------------------------- *)
\* New(opts...): a store with an empty map and an empty queue, configured
\* by the defaults and then by the options
NewOp(opts) ==
    /\ Data' = << >>
    /\ TTLq' = heapInit(<< >>)
    /\ conf' = NewConf(opts)
    /\ lastW' = [k \in Keys |-> NoWrite]
    /\ ret' = [NoRet EXCEPT !.op = "New"]
    /\ UNCHANGED <<now, files, procs, reqs>>

\* a host that makes stores and writes to them
NextNew ==
    \/ \E opts \in OptLists : NewOp(opts)
    \/ \E v \in Values, ttl \in TTLs : PutTTLOp(1, v, ttl)
    \/ Tick

SpecNew == Init /\ [][NextNew]_vars

(* ------------------------------ claims -------------------------------- *)
RecordsOf(q, k) == {i \in 1..Len(q) : q[i].Key = k}

RootIsMin(q) == Len(q) > 0 => \A i \in 1..Len(q) : q[1].Exp <= q[i].Exp

\* C1: the queue holds at most one record per key, and every key that is in
\* the map because of a PutTTL has exactly one record in the queue, in every
\* state reachable by Put, PutTTL, Delete, CleanUp and LoadSnapshot.
C1_OneRecordPerKey ==
    /\ \A k \in Keys : Cardinality(RecordsOf(TTLq, k)) <= 1
    /\ \A k \in Keys : lastW[k].op = "PutTTL" =>
            /\ Exists(Data, k)
            /\ Cardinality(RecordsOf(TTLq, k)) = 1

\* a PutTTL on one key after a load that brought in the record of another,
\* and a snapshot that held both
C1_Witness ==
    \E k, k2 \in Keys :
        /\ k # k2
        /\ lastW[k].op = "PutTTL" /\ lastW[k2].op = "Load"
        /\ RecordsOf(TTLq, k) # {} /\ RecordsOf(TTLq, k2) # {}
        /\ RecordsOf(saved.TTLq, k) # {}

\* C2: whenever the queue is non-empty, the record at index 0 has an
\* expiresAt that is at most the expiresAt of every other record, after any
\* sequence of Put, PutTTL, Delete and CleanUp.
C2_RootIsMin == RootIsMin(TTLq)

\* three records, not in sorted order, among them the record of a key that
\* Delete removed and the record of a key that a plain Put wrote last
C2_Witness ==
    /\ Len(TTLq) = 3
    /\ TTLq[1].Exp < TTLq[3].Exp /\ TTLq[3].Exp < TTLq[2].Exp
    /\ \E k, k2 \in Keys :
        /\ lastW[k].op = "Delete" /\ RecordsOf(TTLq, k) # {}
        /\ lastW[k2].op = "Put" /\ RecordsOf(TTLq, k2) # {}

\* C3: after LoadSnapshot succeeds, the index-0 record of the reconstructed
\* queue has the minimum expiresAt of all its records.
C3_LoadedRootIsMin ==
    [][(LoadSnapshot /\ snapshot # NoFile) => RootIsMin(TTLq')]_vars

C5_PutNeverExpires ==
    [][CleanUp =>
        \A k \in Keys :
            (lastW[k].op = "Put" /\ Exists(Data, k)) => Exists(Data', k)]_vars

\* C6: PutTTL(k, v2, ttl2) on a key that a PutTTL gave a record leaves
\* exactly one record for k, whose expiresAt is the time of this call plus
\* ttl2, Get(k) returns v2, and the queue length is unchanged.
C6_Overwrite ==
    [][\A k \in Keys, v \in Values, ttl \in TTLs :
        (PutTTLRefresh(k, v, ttl) /\ RecordsOf(TTLq, k) # {}) =>
            /\ Cardinality(RecordsOf(TTLq', k)) = 1
            /\ \A i \in RecordsOf(TTLq', k) : TTLq'[i].Exp = now + ttl
            /\ Get(Data', k) = [value |-> v, err |-> FALSE]
            /\ Len(TTLq') = Len(TTLq)]_vars

\* a second PutTTL replaced the value and moved the expiry of a record, with
\* the records of the other keys queued
C6_Witness ==
    \E k \in Keys :
        /\ lastW[k].op = "PutTTL" /\ lastW[k].dir \in {"shorter", "longer"}
        /\ Exists(Data, k) /\ Data[k] # ZeroValue
        /\ Len(TTLq) = NumKeys

C8_RoundTripTTL ==
    [][(LoadSnapshot /\ snapshot # NoFile) =>
        \A k \in DOMAIN saved.Data :
            RecordsOf(saved.TTLq, k) # {} =>
                /\ Get(Data', k) = [value |-> saved.Data[k], err |-> FALSE]
                /\ Cardinality(RecordsOf(TTLq', k)) = 1
                /\ \A i \in RecordsOf(TTLq', k), j \in RecordsOf(saved.TTLq, k) :
                        TTLq'[i].Exp = saved.TTLq[j].Exp]_vars

\* a loaded store with two keys of different expiry, one with a non-zero
\* value
C8_Witness ==
    /\ Len(TTLq) = 2
    /\ TTLq[1].Exp # TTLq[2].Exp
    /\ \A k \in SnapKeys : lastW[k].op = "Load" /\ RecordsOf(saved.TTLq, k) # {}
    /\ \E k \in SnapKeys : Data[k] # ZeroValue

\* C9: every key that is in the map when CreateSnapshot runs, also one
\* written only by Put, is in the map with the same value after LoadSnapshot
\* into a fresh store.
C9_RoundTripAll ==
    [][(LoadSnapshot /\ snapshot # NoFile /\ Data = << >> /\ TTLq = << >>) =>
        \A k \in DOMAIN saved.Data :
            Get(Data', k) = [value |-> saved.Data[k], err |-> FALSE]]_vars

\* C10: after LoadSnapshot the keys of the map are the keys of the records
\* of the new queue, and map and queue hold what the document held and
\* nothing of what they held before.
C10_LoadReplaces ==
    [][(LoadSnapshot /\ snapshot # NoFile) =>
        /\ DOMAIN Data' = {TTLq'[i].Key : i \in 1..Len(TTLq')}
        /\ Len(TTLq') = Len(saved.TTLq)
        /\ {TTLq'[i] : i \in 1..Len(TTLq')}
                = {saved.TTLq[i] : i \in 1..Len(saved.TTLq)}
        /\ \A k \in DOMAIN Data' : Data'[k] = MapIndex(saved.Data, k)]_vars

\* a loaded store that holds one key of the document, while the other key,
\* which the store held when it was saved, has no record and is not loaded
C10_Witness ==
    \E k, k2 \in SnapKeys :
        /\ lastW[k].op = "Load" /\ DOMAIN Data = {k}
        /\ Len(TTLq) = 1 /\ TTLq[1].Key = k
        /\ lastW[k2].op = "none" /\ k2 \in DOMAIN saved.Data

\* C11: after LoadSnapshot followed by one CleanUp at time T, no key whose
\* queue record has expiresAt strictly before T remains in the map, whatever
\* the number and expiry values of the records in the snapshot.
C11_RestartRecovery ==
    [][(CleanUp /\ snapshot # NoFile
            /\ Data = LoadResult(snapshot).d /\ TTLq = LoadResult(snapshot).q) =>
        \A i \in 1..Len(TTLq) :
            TTLq[i].Exp < now => ~Exists(Data', TTLq[i].Key)]_vars

\* C12: once PeriodicCleanup has observed the cancellation it runs CleanUp
\* exactly once more, then CreateSnapshot exactly once, then sends on done,
\* in that order; it sends on done exactly once and never before the
\* cancellation has been signalled.
ShutdownOrder == <<"CleanUp", "CreateSnapshot", "done">>

C12_ShutdownOrder ==
    /\ Len(events) <= Len(ShutdownOrder)
    /\ events = SubSeq(ShutdownOrder, 1, Len(events))
    /\ sched = "terminated" => events = ShutdownOrder
    /\ sent <= 1
    /\ sent = 1 <=> sched = "terminated"
    /\ sched \in {"final", "snapshot", "send", "terminated"} => ctx
    /\ sched \in {"idle", "select", "tick"} => events = << >>

\* PeriodicCleanup has terminated after a CleanUp that removed the key and a
\* CreateSnapshot that wrote the document, with periodic passes before
C12_Witness ==
    /\ sched = "terminated" /\ host = "exited"
    /\ events = ShutdownOrder
    /\ snap.err = "nil" /\ snapshot # NoFile
    /\ Data = << >> /\ TTLq = << >> /\ now > 0
    /\ backups # << >>

\* C13: if CreateSnapshot returns an error during the shutdown of
\* PeriodicCleanup, the error is not propagated and PeriodicCleanup still
\* terminates: it still sends on done exactly once.
SnapshotFailed ==
    snap.by = "sched" /\ snap.err = "err" /\ sched \in {"snapshot", "send", "terminated"}

C13_ShutdownDespiteError ==
    /\ [](SnapshotFailed =>
            /\ sent <= 1
            /\ (sched = "terminated" <=> sent = 1))
    /\ (SnapshotFailed ~> (sched = "terminated" /\ sent = 1))

\* PeriodicCleanup has terminated and the host has received from done, after
\* a CreateSnapshot that failed and left the canonical path without a file
C13_Witness ==
    /\ SnapshotFailed
    /\ sched = "terminated" /\ sent = 1 /\ host = "exited"
    /\ events = ShutdownOrder
    /\ snapshot = NoFile

\* C14: under fair scheduling, with a host that receives from done and with
\* callers that release the lock, every cancellation is eventually followed
\* by the done signal; a CleanUp pass that is in progress when the
\* cancellation arrives runs to completion first: PeriodicCleanup does not
\* react in the middle of a pass.
C14_ShutdownLiveness ==
    /\ ctx ~> (sent = 1)
    /\ (ctx /\ sched = "tick") ~> (sched = "select" /\ clean.pc = "idle")
    /\ [][(ctx /\ sched = "tick") =>
            \/ sched' = "tick"
            \/ clean.pc = "returned" /\ sched' = "select"]_vars

\* the cancellation has arrived while a periodic pass holds the lock and is
\* about to delete the expired key
C14_Witness ==
    /\ ctx /\ sched = "tick"
    /\ clean.pc = "item" /\ Expired(clean.item, clean.t)
    /\ mu.w = "clean"
    /\ Exists(Data, clean.item.Key)

\* C15: with concurrent callers of Put, PutTTL, Get, Delete, Exists and a
\* concurrently running CleanUp, every operation takes effect atomically
\* while it holds the lock, and the map and the queue equal the result of
\* replaying the same operations sequentially in lock-acquisition order; no
\* operation observes the map updated but the queue not yet updated by a
\* PutTTL or a CleanUp.
AsReplayed == Data = seq.Data /\ TTLq = seq.TTLq

C15_Linearizable ==
    /\ mu.w = "none" => AsReplayed
    /\ \A c \in Callers : callers[c].pc = "locked" => AsReplayed
    /\ clean.pc = "now" => AsReplayed
    /\ \A c, d \in Callers :
        (c # d /\ callers[c].pc # "idle" /\ callers[d].pc # "idle") =>
            /\ LockMode(callers[c].op) = "shared"
            /\ LockMode(callers[d].op) = "shared"

\* two goroutines are in Get at the same time, on a store that holds the
\* values and the records of PutTTLs of both and has seen a CleanUp remove a
\* key that was written again
C15_Witness ==
    /\ \A c \in Callers : callers[c].pc = "locked" /\ callers[c].op = "Get"
    /\ clean.pc = "lock"
    /\ Len(TTLq) = NumConcKeys
    /\ \A k \in ConcKeys : Exists(Data, k)
    /\ \E k, k2 \in ConcKeys : Data[k] # Data[k2]
    /\ now > 0

\* C16: Get and Exists hold the store lock in shared mode (two of them can
\* hold it at the same time), and Put, PutTTL, Delete and CleanUp hold it in
\* exclusive mode (no other operation holds the lock at the same time).
C16_LockDiscipline ==
    /\ \A c \in Callers :
        (callers[c].pc # "idle" /\ callers[c].op \in {"Get", "Exists"}) =>
            c \in mu.r /\ mu.w = "none"
    /\ \A c \in Callers :
        (callers[c].pc # "idle" /\ callers[c].op \in {"Put", "PutTTL", "Delete"}) =>
            /\ mu.w = "caller" /\ mu.r = {}
            /\ \A d \in Callers \ {c} : callers[d].pc = "idle"
            /\ clean.pc \in {"idle", "lock"}
    /\ clean.pc \in {"now", "loop", "item", "unlock"} =>
            /\ mu.w = "clean" /\ mu.r = {}
            /\ \A d \in Callers : callers[d].pc = "idle"

\* C17: at every intermediate step of CreateSnapshot, and so after a crash at
\* any step, the canonical snapshot path either does not exist or holds one
\* complete document, the previous snapshot or the new one, never a partly
\* written one; the new document is completely written to the temp file
\* before the canonical path is touched, and the steps happen in the order:
\* write temp file, ensure snapshot directory, rename old snapshot aside,
\* rename temp file onto the canonical path.
StepOrder == <<"marshal", "mkTmp", "create", "write", "mkDir", "stat",
               "renameOld", "renameNew">>

\* s is StepOrder with some steps left out
RECURSIVE InOrder(_, _)
InOrder(s, i) ==
    IF Len(s) = 0 THEN TRUE
    ELSE IF i > Len(StepOrder) THEN FALSE
    ELSE IF s[1] = StepOrder[i] THEN InOrder(Tail(s), i + 1)
    ELSE InOrder(s, i + 1)

TempWritten ==
    /\ snap.ts \in DOMAIN tmpFiles
    /\ tmpFiles[snap.ts] = snap.bytes
    /\ \E i \in 1..Len(snap.steps) : snap.steps[i] = "write"

C17_AtomicReplace ==
    /\ [](snapshot # Partial /\ InOrder(snap.steps, 1))
    /\ [](snap.pc \in {"mkDir", "stat", "renameOld", "renameNew"} =>
            /\ Len(snap.steps) >= 4
            /\ SubSeq(snap.steps, 1, 4) = SubSeq(StepOrder, 1, 4)
            /\ snap.pc # "mkDir" => snap.steps[5] = "mkDir")
    /\ [][snapshot' # snapshot =>
            /\ TempWritten
            /\ \/ /\ snap.pc = "renameOld"
                  /\ snapshot' = NoFile
                  /\ backups'[snap.ts] = snapshot
               \/ /\ snap.pc = "renameNew"
                  /\ snapshot' = snap.bytes
                  /\ snap.bytes = MarshalJSON(snap.img.Data, snap.img.TTLq)]_vars

\* the old snapshot has its backup name, the canonical path has no file and
\* the complete new document is in the temp file, next to the partly written
\* temp file that an earlier call left behind
C17_Witness ==
    /\ snap.pc = "renameNew"
    /\ snapshot = NoFile
    /\ backups # << >>
    /\ TempWritten
    /\ \E t \in DOMAIN tmpFiles : tmpFiles[t] = Partial

\* C18, as stated: CreateSnapshot returns an error only when the final
\* rename of the temp file onto the canonical snapshot path fails; a failure
\* of any earlier step does not abort it with an error.
C18_OnlyFinalRename ==
    snap.pc = "returned" =>
        /\ snap.err = "err" => "renameNew" \in snap.failed
        /\ snap.failed \cap {"marshal", "mkTmp", "create", "write", "mkDir"} # {}
                => snap.err = "nil"

\* C18, amended: CreateSnapshot returns the error of the first of these that
\* fails: json.Marshal, creating the temp directory, creating the temp file,
\* writing it, creating the snapshot directory, the final rename; it returns
\* at that point.  A failure of os.Stat or of the rename of the old snapshot
\* does not make it return an error.
C18_ErrorOfFirstFailure ==
    snap.pc = "returned" =>
        LET fatal == snap.failed \ {"stat", "renameOld"}
        IN  /\ snap.err = "err" <=> fatal # {}
            /\ snap.err = "nil" <=> fatal = {}
            /\ Cardinality(fatal) <= 1
            /\ snap.err = "nil" => snapshot = MarshalJSON(saved.Data, saved.TTLq)

\* a call returned the error of f.Write; the snapshot of the call before is
\* still at the canonical path and the partly written temp file is left
C18_Witness ==
    /\ snap.pc = "returned" /\ snap.err = "err"
    /\ snap.failed = {"write"}
    /\ snapshot # NoFile
    /\ \E t \in DOMAIN tmpFiles : tmpFiles[t] = Partial

\* C19: if renaming the existing canonical snapshot aside to its backup name
\* fails, CreateSnapshot does not return at that point: it still attempts
\* the final rename of the temp file onto the canonical path, and returns nil
\* when that rename succeeds.
C19_RenameOldNotFatal ==
    /\ [](snap.pc = "returned" /\ "renameOld" \in snap.failed =>
            /\ snap.err = "nil" <=> "renameNew" \notin snap.failed
            /\ snap.err = "nil" =>
                    snapshot = MarshalJSON(saved.Data, saved.TTLq))
    /\ [][(snap.pc = "renameOld" /\ snap' # snap /\ snap'.pc # "idle") =>
            /\ snap'.pc = "renameNew"
            /\ snap'.err = "none"]_vars

\* the rename of the old snapshot failed, the final rename replaced the old
\* snapshot by the new document and the call returned nil; no backup exists
C19_Witness ==
    /\ snap.pc = "returned" /\ snap.err = "nil"
    /\ snap.failed = {"renameOld"}
    /\ backups = << >>
    /\ snapshot # NoFile
    /\ saved.Data # << >>

\* C20: the document written by CreateSnapshot is a point-in-time image: its
\* data and ttlq fields are both taken from one state of the store that
\* existed between two operations, even when Put, PutTTL, Delete or CleanUp
\* run concurrently with CreateSnapshot.
C20_PointInTime ==
    /\ snap.pc \in {"data", "ttlq", "unlock"} =>
            /\ Data = snap.img.Data /\ TTLq = snap.img.TTLq
            /\ AsReplayed
    /\ snap.pc = "ttlq" =>
            snap.bytes.data = MarshalJSON(snap.img.Data, snap.img.TTLq).data
    /\ snap.pc \in {"unlock", "mkTmp", "create", "write", "mkDir", "stat",
                    "renameOld", "renameNew"} =>
            snap.bytes = MarshalJSON(snap.img.Data, snap.img.TTLq)
    /\ snap.pc \in {"mkDir", "stat", "renameOld", "renameNew"} =>
            tmpFiles[snap.ts] = snap.bytes
    /\ snapshot # NoFile => snapshot = MarshalJSON(saved.Data, saved.TTLq)

\* the document is written, with a value and a record in it; since it was
\* marshalled a CleanUp has removed the key, and a PutTTL of the key has
\* set the map entry and not yet the queue
C20_Witness ==
    /\ snap.pc = "mkDir"
    /\ snap.bytes.data # {} /\ Len(snap.bytes.ttlq) = 1
    /\ tmpFiles[snap.ts] = snap.bytes
    /\ \E c \in Callers : callers[c].pc = "scan"
    /\ TTLq = << >> /\ snap.img.TTLq # << >>
    /\ clean.pc = "lock"

(* C21: whenever LoadSnapshot returns an error (no file at the canonical   *)
(* path, or a document that cannot be decoded), the map and the queue are  *)
(* what they were before the call.                                         *)
C21_FailedLoadKeepsStore ==
    [][(ret' # ret /\ ret'.op = "LoadSnapshot" /\ ret'.err # "nil")
            => (Data' = Data /\ TTLq' = TTLq)]_vars

\* a load has failed on a damaged document while the store held a key and
\* a record
C21_Witness ==
    /\ ret.op = "LoadSnapshot" /\ ret.err = "decode"
    /\ snapshot = Partial
    /\ DOMAIN Data # {} /\ Len(TTLq) > 0

C23_NoLazyExpiration ==
    [][\A k \in Keys :
        /\ GetOp(k) =>
                /\ Data' = Data /\ TTLq' = TTLq
                /\ k \in DOMAIN Data =>
                        ret'.err = "nil" /\ ret'.value = Data[k]
        /\ ExistsOp(k) =>
                /\ Data' = Data /\ TTLq' = TTLq
                /\ k \in DOMAIN Data => ret'.found]_vars

\* Get has returned the value of a key whose record has expired and is
\* still queued
C23_Witness ==
    /\ ret.op = "Get" /\ ret.err = "nil"
    /\ ret.key \in DOMAIN Data /\ ret.value = Data[ret.key]
    /\ \E i \in 1..Len(TTLq) : TTLq[i].Key = ret.key /\ TTLq[i].Exp < now

(* C24: after PutTTL(k, v, ttl) with ttl > 0 and before any CleanUp,       *)
(* Delete or other write to k, Get(k) returns v with no error and          *)
(* Exists(k) is true, for every key and every value (the zero value too).  *)
C24_PutTTLThenGet ==
    /\ \A k \in Keys :
            (lastW[k].op = "PutTTL" /\ lastW[k].ttl > 0) =>
                /\ Exists(Data, k)
                /\ Get(Data, k) = [value |-> lastW[k].value, err |-> FALSE]
    /\ (ret.op \in {"Get", "Exists"} /\ lastW[ret.key].op = "PutTTL"
                /\ lastW[ret.key].ttl > 0) =>
            IF ret.op = "Get"
            THEN ret.err = "nil" /\ ret.value = lastW[ret.key].value
            ELSE ret.found

\* Get has returned the zero value, with no error, for a key that a PutTTL
\* with a positive ttl wrote over an earlier value
C24_Witness ==
    /\ ret.op = "Get" /\ ret.err = "nil" /\ ret.value = ZeroValue
    /\ lastW[ret.key].op = "PutTTL" /\ lastW[ret.key].ttl > 0
    /\ lastW[ret.key].value = ZeroValue
    /\ \E k \in Keys : k # ret.key /\ k \in DOMAIN Data /\ Data[k] # ZeroValue

(* C25: for every key that is not in the map (never inserted, deleted or   *)
(* swept) Exists returns false and Get returns an error together with the  *)
(* zero value of V; Get fails in no other case.                            *)
C25_AbsentKey ==
    /\ \A k \in Keys \ DOMAIN Data :
            /\ ~Exists(Data, k)
            /\ Get(Data, k) = [value |-> ZeroValue, err |-> TRUE]
    /\ ret.op = "Get" =>
            /\ ret.err # "nil" <=> ret.key \notin DOMAIN Data
            /\ ret.err # "nil" => ret.value = ZeroValue
    /\ ret.op = "Exists" => (ret.found <=> ret.key \in DOMAIN Data)

\* Get has returned an error for a key that a CleanUp pass swept, while
\* another key was deleted and a third was never inserted
C25_Witness ==
    /\ ret.op = "Get" /\ ret.err # "nil" /\ ret.value = ZeroValue
    /\ lastW[ret.key].op = "CleanUp"
    /\ \E k \in Keys : lastW[k].op = "Delete" /\ k \notin DOMAIN Data
    /\ \E k \in Keys : lastW[k].op = "none" /\ k \notin DOMAIN Data

(* C26: Delete never fails and is idempotent: Delete(k) returns no error   *)
(* whether or not k is in the map, k is absent afterwards, and a second    *)
(* Delete(k) leaves the map and the queue as the first one left them.      *)
C26_DeleteIdempotent ==
    [][\A k \in Keys :
        DeleteOp(k) =>
            /\ ret'.err = "nil"
            /\ k \notin DOMAIN Data'
            /\ \A x \in DOMAIN Data \ {k} :
                    x \in DOMAIN Data' /\ Data'[x] = Data[x]
            /\ TTLq' = TTLq
            /\ k \notin DOMAIN Data => Data' = Data]_vars

\* a Delete has found the key already deleted (its record is still queued)
\* while another key is in the map
C26_Witness ==
    /\ ret.op = "Delete" /\ ~ret.was /\ ret.err = "nil"
    /\ \E i \in 1..Len(TTLq) : TTLq[i].Key = ret.key
    /\ \E k \in DOMAIN Data : k # ret.key

(* C27: CleanUp at time now removes a key from the map only if it popped a *)
(* record for that key whose expiry is strictly before now; a key with no  *)
(* record in the queue is never removed, and the values of the entries     *)
(* that remain are unchanged.                                              *)
C27_CleanUpFrame ==
    [][CleanUpOp =>
        /\ \A k \in DOMAIN Data \ DOMAIN Data' :
                /\ \E i \in RecordsOf(TTLq, k) : TTLq[i].Exp < now
                /\ RecordsOf(TTLq', k) = {}
        /\ \A k \in DOMAIN Data : RecordsOf(TTLq, k) = {} => k \in DOMAIN Data'
        /\ \A k \in DOMAIN Data' : k \in DOMAIN Data /\ Data'[k] = Data[k]]_vars

\* a CleanUp pass has removed a key and left a key that has no record
C27_Witness ==
    /\ ret.op = "CleanUp"
    /\ \E k \in Keys : lastW[k].op = "CleanUp" /\ k \notin DOMAIN Data
    /\ \E k \in DOMAIN Data : lastW[k].op = "Put" /\ RecordsOf(TTLq, k) = {}

\* C28: a POST request that answered 201 wrote its value for a key that was
\* absent when the value was written (so of two concurrent POST requests for
\* one absent key at most one answers 201, and an existing key keeps its
\* value and its expiry)
C28_PostOnlyIfAbsent ==
    \A h \in Handlers :
        reqs[h].pc = "done" /\ reqs[h].method = "POST" /\ reqs[h].status = 201
            => ~reqs[h].present

\* C29: a PUT request that answered 204 wrote its value for a key that was
\* present when the value was written (PUT never creates a key, also with a
\* Delete or a CleanUp pass in between)
C29_PutOnlyIfPresent ==
    \A h \in Handlers :
        reqs[h].pc = "done" /\ reqs[h].method = "PUT" /\ reqs[h].status = 204
            => reqs[h].present

\* C30: GET answers 200 with the stored value for a present key and 404 for
\* an absent one and changes nothing; DELETE answers 204 whether or not the
\* key exists and the key is absent afterwards; a method other than GET,
\* POST, PUT, DELETE is answered 405 at once and the store is unchanged
C30_MethodDispatch ==
    [][\A h \in Handlers :
        /\ ServeGet(h) =>
            /\ IF reqs[h].key \in DOMAIN Data
                  THEN reqs'[h].status = 200 /\ reqs'[h].out = Data[reqs[h].key]
                  ELSE reqs'[h].status = 404
            /\ UNCHANGED <<Data, TTLq>>
        /\ ServeDelete(h) =>
            /\ reqs'[h].status = 204
            /\ reqs[h].key \notin DOMAIN Data'
        /\ ( /\ reqs[h].pc \in {"idle", "done"}
             /\ reqs'[h] # reqs[h]
             /\ reqs'[h].method \notin {"GET", "POST", "PUT", "DELETE"} ) =>
            /\ reqs'[h].pc = "done"
            /\ reqs'[h].status = 405
            /\ UNCHANGED <<Data, TTLq>>]_vars

C30_Witness ==
    /\ \E h \in Handlers :
            /\ reqs[h].pc = "done" /\ reqs[h].method = "GET"
            /\ reqs[h].status = 200 /\ reqs[h].out = 1
    /\ \E h \in Handlers :
            /\ reqs[h].pc = "done" /\ reqs[h].method = "DELETE"
            /\ reqs[h].status = 204 /\ reqs[h].key \notin DOMAIN Data

\* the argument of the last option of opts that assigns field f, or the
\* default def when none does
LastArg(opts, f, def) ==
    LET is == {i \in 1..Len(opts) : opts[i].field = f}
        last == CHOOSE i \in is : \A j \in is : j <= i
    IN  IF is = {} THEN def
        ELSE IF f = "limit" THEN opts[last].num ELSE opts[last].str

HeapOK(q) == \A j \in 1..(Len(q) - 1) : ~Less(q, j, (j - 1) \div 2)

\* C32: a CleanUp pass at time now leaves in the queue exactly the records
\* whose expiry is not strictly before now, each once, and the queue is
\* still a heap
C32_CleanUpPost ==
    [][CleanUp =>
        LET kept == {i \in 1..Len(TTLq) : ~(TTLq[i].Exp < now)}
        IN  /\ Len(TTLq') = Cardinality(kept)
            /\ {TTLq'[i] : i \in 1..Len(TTLq')} = {TTLq[i] : i \in kept}
            /\ \A i, j \in 1..Len(TTLq') : TTLq'[i] = TTLq'[j] => i = j
            /\ HeapOK(TTLq')]_vars

C32_Witness ==
    /\ \E k \in StoreKeys :
            /\ lastW[k].op = "CleanUp"
            /\ RecordsOf(TTLq, k) = {}
    /\ Len(TTLq) = 2
    /\ \A i \in 1..Len(TTLq) : TTLq[i].Exp >= now
    /\ TTLq[1].Exp < TTLq[2].Exp

\* C33: a key that is not in the map when CreateSnapshot runs is not in the
\* map after LoadSnapshot of that snapshot: Exists returns false and Get
\* returns an error for it
C33_AbsentStaysAbsent ==
    [][(LoadSnapshot /\ snapshot # NoFile) =>
        \A k \in Keys \ DOMAIN saved.Data :
            /\ ~Exists(Data', k)
            /\ Get(Data', k).err]_vars

\* the records of q that are not of key k
OtherRecords(q, k) == {q[i] : i \in 1..Len(q) \ RecordsOf(q, k)}

\* C34: PutTTL on a key with no record makes the queue one record longer,
\* PutTTL on a key with a record leaves its length as it is, and both leave
\* one record of the key, with the new expiry, and every record of the other
\* keys as it was; Put, Delete, Get and Exists leave the queue as it is
C34_QueueFrame ==
    [][\A k \in SnapKeys :
        /\ (\E v \in Values, ttl \in TTLs : PutTTLRefresh(k, v, ttl)) =>
            /\ Len(TTLq') = IF RecordsOf(TTLq, k) = {} THEN Len(TTLq) + 1
                                                        ELSE Len(TTLq)
            /\ Cardinality(RecordsOf(TTLq', k)) = 1
            /\ \A i \in RecordsOf(TTLq', k) : TTLq'[i].Exp = lastW'[k].exp
            /\ OtherRecords(TTLq', k) = OtherRecords(TTLq, k)
            /\ Len(TTLq') - 1 = Cardinality(OtherRecords(TTLq', k))
        /\ ( \/ \E v \in Values : Put(k, v)
             \/ Delete(k)
             \/ GetOp(k)
             \/ ExistsOp(k) ) => TTLq' = TTLq]_vars

C34_Witness ==
    \E k \in SnapKeys :
        /\ lastW[k].op = "PutTTL" /\ lastW[k].dir = "longer"
        /\ Len(TTLq) = 2
        /\ TTLq[1].Key # k
        /\ ret.op = "Exists" /\ ret.key = k /\ ret.found

\* C35: while PeriodicCleanup runs and is not cancelled, a key in the map
\* whose record has an expiry that has passed is eventually removed from the
\* map, or written again (its record then has a later expiry), with no call
\* of CleanUp other than PeriodicCleanup's
C35_SweepLive ==
    \A k \in ConcKeys, e \in 0..(MaxTime + MaxTTL) :
        ( /\ host = "running"
          /\ k \in DOMAIN Data
          /\ e < now
          /\ \E i \in RecordsOf(TTLq, k) : TTLq[i].Exp = e )
        ~> ( \/ k \notin DOMAIN Data
             \/ \E i \in RecordsOf(TTLq, k) : TTLq[i].Exp # e )

\* a pass PeriodicCleanup started has popped the record of a key that is in
\* the map and has expired, while the record of the other key stays queued
C35_Witness ==
    /\ host = "running" /\ ~ctx
    /\ sched = "tick" /\ clean.by = "sched" /\ clean.pc = "item"
    /\ clean.item.Key \in DOMAIN Data
    /\ clean.item.Exp < clean.t
    /\ Len(TTLq) = 1

\* the records a CleanUp pass holds the lock over: the queue, and the record
\* it has popped and not yet deleted or pushed back
InPass == Len(TTLq) + (IF clean.pc = "item" THEN 1 ELSE 0)

\* C36: a CleanUp pass pops only from a queue that has a record; an
\* iteration either removes one record for good and goes on, or pushes the
\* popped record back and leaves the loop; no other step changes the queue
\* during the pass, so a pass on n records removes at most n; and every
\* pass that has the lock returns
C36_CleanUpTerminates ==
    /\ [][CleanPop =>
            IF Len(TTLq) = 0
            THEN clean'.pc = "unlock" /\ TTLq' = TTLq
            ELSE clean'.pc = "item" /\ Len(TTLq') = Len(TTLq) - 1]_vars
    /\ [][CleanItem =>
            \/ clean'.pc = "loop" /\ TTLq' = TTLq
            \/ /\ clean'.pc = "unlock"
               /\ Len(TTLq') = Len(TTLq) + 1
               /\ \E i \in 1..Len(TTLq') : TTLq'[i] = clean.item]_vars
    /\ [][mu.w = "clean" /\ mu'.w = "clean" =>
            /\ InPass' <= InPass
            /\ (clean.pc = "item" /\ clean'.pc = "loop") => InPass' = InPass - 1]_vars
    /\ (clean.pc = "now") ~> (clean.pc = "returned")

\* a pass has popped the last record of the queue, which has expired: the
\* next test of the loop condition finds the queue empty
C36_Witness ==
    /\ clean.pc = "item" /\ clean.by = "sched"
    /\ clean.item.Exp < clean.t
    /\ Len(TTLq) = 0
    /\ clean.item.Key \in DOMAIN Data

\* C37: when CreateSnapshot renames the snapshot it found at the canonical
\* path, the backup name is the name of no backup already in the snapshot
\* directory, so the directory holds one more backup than before
C37_BackupNameIsNew ==
    [][SnapRenameOld(TRUE) =>
        /\ snap.ts \notin DOMAIN backups
        /\ Cardinality(DOMAIN backups') = Cardinality(DOMAIN backups) + 1]_vars

\* whether the name has a part that is the literal of the mask, at the
\* beginning or at the end of the name where the mask is anchored
Matches(mask, name) ==
    \E i \in 1..(Len(name) + 1), j \in 0..Len(name) :
        /\ j >= i - 1
        /\ SubSeq(name, i, j) = mask.lit
        /\ mask.begin => i = 1
        /\ mask.end => j = Len(name)

\* C38: GetRegex(mask) returns each value as many times as the map has keys
\* with that value whose name matches mask, whether or not their expiry has
\* passed, and leaves the map and the queue as they are
C38_GetRegex ==
    [][\A mask \in Masks : GetRegexOp(mask) =>
        /\ \A v \in Values :
              ret'.values[v] =
                  Cardinality({k \in DOMAIN Data :
                                  Matches(mask, KeyName(k)) /\ Data[k] = v})
        /\ UNCHANGED <<Data, TTLq>>]_vars

\* GetRegex with the mask "b" has returned the value of the key "ab", whose
\* expiry has passed, and not the value of the key "a"
C38_Witness ==
    /\ ret.op = "GetRegex"
    /\ ret.mask = [lit |-> <<"b">>, begin |-> FALSE, end |-> FALSE]
    /\ DOMAIN Data = {1, 2} /\ Data[1] = 0 /\ Data[2] = 1
    /\ ret.values = [v \in Values |-> IF v = 1 THEN 1 ELSE 0]
    /\ \E i \in RecordsOf(TTLq, 2) : TTLq[i].Exp < now

====
